---- MODULE Spec2Model ----
(***************************************************************************)
(* A model of torch/fx/graph_module.py: the source registry                *)
(* (exec_with_source, patched_getline), forward_from_src, _copy_attr,      *)
(* GraphModule (__new__, __init__, _generate_forward, __reduce__) and      *)
(* deserialize_graphmodule.                                                *)
(*                                                                         *)
(* A text (a Python str) is a sequence of symbols.  A symbol is a string   *)
(* that stands for a run of characters holding no line break, or for one   *)
(* line break character ("\n", "\r"), or for the separator of a dotted     *)
(* path (".").  Objects live in a heap (a sequence of records); an object  *)
(* is named by its index, so `is` is equality of indices, and None is 0.   *)
(***************************************************************************)
EXTENDS Integers, Sequences, FiniteSets, TLC

VARIABLES
    next_id,      \* the module global _next_id
    eval_cache,   \* the module global _eval_cache: key -> list of lines
    heap,         \* every torch.nn.Module / leaf object alive
    classes,      \* every class object: its base and its own `forward`
    units,        \* the GraphModule instances returned to callers
    binds,        \* history: the exec_with_source calls so far, in order
    last,         \* history: what the last operation was and how it ended
    copies,       \* history: the _copy_attr calls made on the bare target
    syn,          \* the inputs and the output of one source synthesis
    threads       \* the threads inside exec_with_source: position and locals

vars == <<next_id, eval_cache, heap, classes, units, binds, last, copies, syn,
          threads>>

-----------------------------------------------------------------------------
(* Bounds of the model.                                                    *)

MaxBodyLen == 3     \* symbols in a body handed to the synthesizer
MaxFree == 2        \* free variables handed to the synthesizer
MaxOps == 3         \* _copy_attr calls on one target
MaxUnits == 2       \* GraphModule instances alive
MaxBinds == 4       \* exec_with_source calls in one run
MaxThreads == 2     \* threads that call exec_with_source at once

-----------------------------------------------------------------------------
(* Texts.                                                                  *)

NL == "\n"
CR == "\r"
DOT == "."
INDENT == "    "
None == 0

\* The value of v handed to F: v is worked out once, however often F uses it.
With(v, F(_)) == CHOOSE y \in {F(x) : x \in {v}} : TRUE

\* str.split(sep) for a one-character separator: always at least one piece.
RECURSIVE SplitFrom(_, _, _, _)
SplitFrom(s, sep, done, cur) ==
    IF s = <<>> THEN Append(done, cur)
    ELSE IF Head(s) = sep THEN SplitFrom(Tail(s), sep, Append(done, cur), <<>>)
    ELSE SplitFrom(Tail(s), sep, done, Append(cur, Head(s)))

SplitOn(s, sep) == With(s, LAMBDA v : SplitFrom(v, sep, <<>>, <<>>))

\* str.splitlines(): breaks at "\n", "\r" and "\r\n" (one break), drops the
\* breaks, and yields no empty last line.
RECURSIVE SplitLinesFrom(_, _, _)
SplitLinesFrom(s, done, cur) ==
    IF s = <<>> THEN (IF cur = <<>> THEN done ELSE Append(done, cur))
    ELSE IF Head(s) = CR /\ Len(s) >= 2 /\ s[2] = NL
         THEN SplitLinesFrom(Tail(Tail(s)), Append(done, cur), <<>>)
    ELSE IF Head(s) \in {NL, CR}
         THEN SplitLinesFrom(Tail(s), Append(done, cur), <<>>)
    ELSE SplitLinesFrom(Tail(s), done, Append(cur, Head(s)))

SplitLines(s) == With(s, LAMBDA v : SplitLinesFrom(v, <<>>, <<>>))

\* sep.join(pieces)
RECURSIVE JoinFrom(_, _, _, _)
JoinFrom(pieces, sep, i, out) ==
    IF i > Len(pieces) THEN out
    ELSE JoinFrom(pieces, sep, i + 1,
                  IF i = 1 THEN pieces[1] ELSE out \o sep \o pieces[i])

Join(pieces, sep) == With(pieces, LAMBDA v : JoinFrom(v, sep, 1, <<>>))

\* ''.join(lines)
Flatten(lines) == Join(lines, <<>>)

Contains(s, sym) == \E i \in DOMAIN s : s[i] = sym

-----------------------------------------------------------------------------
(* GraphModule._generate_forward: the source text.                         *)

\* A slip: only the first line of the body is indented.
IndentFirstLineOnly(body) == <<INDENT>> \o body \o <<NL>>

\* body = '\n'.join('    ' + line for line in body.split('\n')) + '\n'
IndentBody(body) ==
    With(SplitOn(body, NL),
         LAMBDA ls : Join([i \in 1..Len(ls) |-> <<INDENT>> \o ls[i]], <<NL>>))
        \o <<NL>>

\* A slip: the key counter is written into the text.
StampedCode(body, result, free_variables) ==
    <<"def forward(", "self", ", ">> \o Join(free_variables, <<", ">>)
        \o <<"):", NL>>
        \o IndentBody(body) \o <<NL>>
        \o <<INDENT, "return ">> \o result
        \o <<IF next_id % 2 = 0 THEN "  # even" ELSE "  # odd">> \o <<NL>>

\* self.code = f"""def forward(self, {', '.join(free_variables)}):
\*             {body}
\*                 return {result}
\*             """
GenerateCode(body, result, free_variables) ==
    <<"def forward(", "self", ", ">> \o Join(free_variables, <<", ">>)
        \o <<"):", NL>>
        \o IndentBody(body) \o <<NL>>
        \o <<INDENT, "return ">> \o result \o <<NL>>

-----------------------------------------------------------------------------
(* The synthesizer on its own: every body, result and free variable list   *)
(* within the bounds.                                                      *)

BodySymbols == {"s = self.a(x)", "t = s + x", NL}
SeqsUpTo(S, n) == UNION {[1..k -> S] : k \in 0..n}
Bodies == SeqsUpTo(BodySymbols, MaxBodyLen)
FreeNames == {<<"x">>, <<"y">>, <<"z">>}
FreeLists == {f \in SeqsUpTo(FreeNames, MaxFree) :
                 \A i, j \in 1..Len(f) : i # j => f[i] # f[j]}
Results == {<<"s">>, <<"t">>}

NoSyn == [body |-> <<>>, result |-> <<>>, free |-> <<>>, code |-> <<>>,
          done |-> FALSE]

Synthesize ==
    /\ ~syn.done
    /\ syn' = [syn EXCEPT !.code = GenerateCode(syn.body, syn.result, syn.free),
                          !.done = TRUE]
    /\ UNCHANGED <<next_id, eval_cache, heap, classes, units, binds, last, copies,
                   threads>>

-----------------------------------------------------------------------------
(* Objects.  heap[o] = [cls, dict]: the object's class and its __dict__, a  *)
(* flat mapping from attribute name to value (an object, None, or for the  *)
(* keys training, graph and code a plain value).                           *)

ModuleCls == 1        \* torch.nn.Module
ParameterCls == 2     \* a leaf: parameter or buffer
GraphModuleCls == 3   \* GraphModule, the declared class

NoMethod == [key |-> <<>>, src |-> <<>>]

BaseClasses ==
    << [name |-> "Module", base |-> 0, forward |-> NoMethod],
       [name |-> "Parameter", base |-> 0, forward |-> NoMethod],
       [name |-> "GraphModule", base |-> ModuleCls, forward |-> NoMethod] >>

EmptyDict == [k \in {} |-> None]

\* torch.nn.Module(): a container with nothing in it, in training mode.
NewModule(cls) == [cls |-> cls, dict |-> [training |-> TRUE]]

\* The template: root.a and root.a.b are containers, root.a.w and
\* root.a.b.w are one shared leaf, root.n is None (as a bias that is off).
RootObj == 1
TemplateHeap(training) ==
    << [cls |-> ModuleCls, dict |-> [training |-> training, a |-> 2, n |-> None]],
       [cls |-> ModuleCls, dict |-> [training |-> training, b |-> 3, w |-> 4]],
       [cls |-> ModuleCls, dict |-> [training |-> training, w |-> 4]],
       [cls |-> ParameterCls, dict |-> EmptyDict] >>

HasAttr(h, o, name) == o # None /\ name \in DOMAIN h[o].dict

\* A slip: the walk does not move on in the target, every write lands in
\* the container the walk started in.
SetAttrAtStart(h, o, name, v) ==
    [h EXCEPT ![Len(TemplateHeap(TRUE)) + 1].dict =
        [k \in DOMAIN h[Len(TemplateHeap(TRUE)) + 1].dict \cup {name} |->
            IF k = name THEN v ELSE h[Len(TemplateHeap(TRUE)) + 1].dict[k]]]

\* A slip: an attribute that is there is not replaced.
SetDefault(h, o, name, v) ==
    IF name \in DOMAIN h[o].dict THEN h
    ELSE [h EXCEPT ![o].dict = [k \in DOMAIN h[o].dict \cup {name} |->
                                   IF k = name THEN v ELSE h[o].dict[k]]]

\* setattr(o, name, v)
SetAttr(h, o, name, v) ==
    [h EXCEPT ![o].dict = [k \in DOMAIN h[o].dict \cup {name} |->
                              IF k = name THEN v ELSE h[o].dict[k]]]

\* One piece of target.split('.') as an attribute name.
NameOf(piece) == IF Len(piece) = 1 THEN piece[1] ELSE ""

\* A slip: the target's attribute is never looked at.
TargetAttrIgnored(h, to_module, item) == None

\* t = getattr(to_module, item, None)
TargetAttr(h, to_module, item) ==
    IF HasAttr(h, to_module, item) THEN h[to_module].dict[item] ELSE None

\* A slip: no short-circuit.
NeverSame(f, t) == FALSE

\* f is t
IsSame(f, t) == f = t

\* The loop of _copy_attr over `prefix` and the final setattr.  The result
\* says how the call ended (status), what it did (created, assigned), and
\* whether it returned from inside the loop (shortcut) and, if so, whether
\* the target had the attribute at all (held).
RECURSIVE CopyWalk(_, _, _, _, _, _)
CopyWalk(h, from_module, to_module, prefix, field, created) ==
    IF prefix = <<>>
    THEN IF HasAttr(h, from_module, field)
         THEN [heap |-> SetAttr(h, to_module, field, h[from_module].dict[field]),
               status |-> "ok", created |-> created, assigned |-> created + 1,
               shortcut |-> FALSE, held |-> FALSE]
         ELSE [heap |-> h, status |-> "AttributeError", created |-> created,
               assigned |-> created, shortcut |-> FALSE, held |-> FALSE]
    ELSE LET item == Head(prefix) IN
         IF ~HasAttr(h, from_module, item)
         THEN [heap |-> h, status |-> "AttributeError", created |-> created,
               assigned |-> created, shortcut |-> FALSE, held |-> FALSE]
         ELSE LET f == h[from_module].dict[item]
                  t == TargetAttr(h, to_module, item)
              IN  IF IsSame(f, t)
                  THEN [heap |-> h, status |-> "ok", created |-> created,
                        assigned |-> created, shortcut |-> TRUE,
                        held |-> HasAttr(h, to_module, item)]
                  ELSE IF t = None
                  THEN With(SetAttr(Append(h, NewModule(ModuleCls)), to_module,
                                    item, Len(h) + 1),
                            LAMBDA h2 : CopyWalk(h2, f, Len(h2), Tail(prefix),
                                                 field, created + 1))
                  ELSE CopyWalk(h, f, t, Tail(prefix), field, created)

\* _copy_attr(from_module, to_module, target)
CopyAttr(h, from_module, to_module, target) ==
    With(<<h, SplitOn(target, DOT)>>,
         LAMBDA a :
            With([i \in 1..Len(a[2]) |-> NameOf(a[2][i])],
                 LAMBDA names :
                    CopyWalk(a[1], from_module, to_module,
                             SubSeq(names, 1, Len(names) - 1),
                             names[Len(names)], 0)))

\* Following a dotted path from an object: the object reached, or "absent".
RECURSIVE ResolveNames(_, _, _)
ResolveNames(h, o, names) ==
    IF names = <<>> THEN <<"at", o>>
    ELSE IF HasAttr(h, o, Head(names))
         THEN ResolveNames(h, h[o].dict[Head(names)], Tail(names))
         ELSE <<"absent", None>>

Resolve(h, o, target) ==
    LET parts == SplitOn(target, DOT)
    IN  ResolveNames(h, o, [i \in 1..Len(parts) |-> NameOf(parts[i])])

Resolves(h, o, target) == Resolve(h, o, target)[1] = "at"

-----------------------------------------------------------------------------
(* _copy_attr on its own: a run of calls that copy from the template into  *)
(* one container that starts empty, as GraphModule.__init__ makes them.    *)
(* A call that raises ends the run, as it ends __init__.                   *)

T(names) == Join([i \in 1..Len(names) |-> <<names[i]>>], <<DOT>>)

CopyTargets ==
    { T(<<"a">>), T(<<"a", "b">>), T(<<"a", "b", "w">>), T(<<"a", "w">>),
      T(<<"n">>), T(<<"n", "x">>), T(<<"a", "z">>), T(<<"z", "w">>),
      T(<<"a", "w", "x">>), T(<<"a", "b", "z">>) }

TargetObj == 5

NoLast == [op |-> "none"]

InitCopy ==
    /\ heap = Append(TemplateHeap(TRUE), NewModule(ModuleCls))
    /\ copies = <<>>
    /\ last = NoLast
    /\ next_id = 0
    /\ eval_cache = EmptyDict
    /\ classes = BaseClasses
    /\ units = <<>>
    /\ binds = <<>>
    /\ syn = NoSyn
    /\ threads = <<>>

CopyStep(target) ==
    /\ Len(copies) < MaxOps
    /\ \A i \in 1..Len(copies) : copies[i].status = "ok"
    /\ \E r \in {CopyAttr(heap, RootObj, TargetObj, target)} :
           /\ heap' = r.heap
           /\ copies' = Append(copies, [target |-> target, status |-> r.status])
           /\ last' = [op |-> "copy", target |-> target, status |-> r.status,
                       created |-> r.created, assigned |-> r.assigned,
                       shortcut |-> r.shortcut, held |-> r.held,
                       before |-> heap]
    /\ UNCHANGED <<next_id, eval_cache, classes, units, binds, syn, threads>>

NextCopy == \E target \in CopyTargets : CopyStep(target)

SpecCopy == InitCopy /\ [][NextCopy]_vars

-----------------------------------------------------------------------------
(* Claims about _copy_attr, under SpecCopy.                                *)

Copied(target) ==
    \E i \in 1..Len(copies) : copies[i].target = target /\ copies[i].status = "ok"

\* C6. Transplant idempotence: in every state the target can be in, a
\* _copy_attr call that succeeds, made a second time with the same path,
\* succeeds again, creates no object and leaves every object of the heap
\* (the target tree with it) bound to the same objects as after the first.
C6_TransplantIdempotent ==
    /\ \A p \in CopyTargets :
          LET r1 == CopyAttr(heap, RootObj, TargetObj, p)
              r2 == CopyAttr(r1.heap, RootObj, TargetObj, p)
          IN  r1.status = "ok" =>
                 r2.status = "ok" /\ r2.heap = r1.heap /\ r2.created = 0
    /\ \A i \in 2..Len(copies) :
          (i = Len(copies) /\ copies[i].target = copies[i - 1].target
              /\ copies[i].status = "ok")
          => heap = last.before /\ last.created = 0

\* The same path was copied twice in a row, and the second call went all
\* the way to the final setattr.
C6_Witness ==
    /\ Len(copies) >= 2
    /\ copies[Len(copies)].target = copies[Len(copies) - 1].target
    /\ copies[Len(copies)].status = "ok"
    /\ ~last.shortcut
    /\ Len(SplitOn(last.target, DOT)) >= 2

\* q is p with one more name.
Extends(q, p) == \E w \in {"a", "b", "w", "n", "x", "z"} : q = p \o <<DOT, w>>

\* C7. Ancestor short-circuit: once a path P and an extension P.w of it
\* have both been copied, in either order, the target holds at P the very
\* object the template holds at P; and a copy of P.w made after the copy of
\* P creates no container and assigns nothing.
C7_AncestorShortCircuit ==
    \A p, q \in CopyTargets :
        (Extends(q, p) /\ Copied(p) /\ Copied(q)) =>
            /\ Resolve(heap, TargetObj, p) = Resolve(heap, RootObj, p)
            /\ Resolves(heap, TargetObj, p)
            /\ (last.target = q /\ \E i \in 1..(Len(copies) - 1) :
                                       copies[i].target = p)
               => (last.created = 0 /\ last.assigned = 0 /\ heap = last.before)

\* a.b was copied, then a.b.w: the second call stopped at a.b.
C7_Witness ==
    /\ Len(copies) = 2
    /\ copies[1].target = T(<<"a", "b">>)
    /\ copies[2] = [target |-> T(<<"a", "b", "w">>), status |-> "ok"]
    /\ last.shortcut

\* C10. Postcondition of a _copy_attr call that returns: the path resolves
\* in the target, to the object it resolves to in the template; and the
\* return from inside the loop is taken only when the target already holds
\* the template's object at that prefix.
C10_CopyPostcondition ==
    (last.op = "copy" /\ last.status = "ok") =>
        /\ Resolves(heap, TargetObj, last.target)
        /\ Resolve(heap, TargetObj, last.target)
              = Resolve(heap, RootObj, last.target)
        /\ last.shortcut => last.held

-----------------------------------------------------------------------------
(* The source registry and the binder.                                     *)

\* key = f'<eval_with_key_{_next_id}>'
Key(n) == <<"<eval_with_key_", n, ">">>

\* A slip: the counter is not advanced.
SameId(n) == n

\* _next_id += 1
NextId(n) == n + 1

\* [line + '\n' for line in src.splitlines()]
CacheLines(src) ==
    With(SplitLines(src), LAMBDA ls : [i \in 1..Len(ls) |-> Append(ls[i], NL)])

\* The interpreter: compile(src, key, 'exec') raises SyntaxError on a text
\* that holds a run of characters that is no Python, and exec of the text
\* binds the name forward when the text holds a definition of it.
NotPython == {"?", "s = ?"}
Compiles(src) == \A i \in DOMAIN src : src[i] \notin NotPython
\* A slip: every text counts as one that defines forward.
AlwaysDefines(src) == TRUE

DefinesForward(src) == Contains(src, "def forward(")

\* A slip: the registry keeps the newest entry only.
ExecWithSourceEvicting(nid, cache, src) ==
    [next_id |-> NextId(nid),
     eval_cache |-> [k \in {Key(nid)} |-> CacheLines(src)],
     key |-> Key(nid),
     status |-> IF Compiles(src) THEN "ok" ELSE "SyntaxError"]

\* exec_with_source(src, globals): the key is taken and the lines are stored
\* before the text is compiled.
ExecWithSource(nid, cache, src) ==
    With(<<Key(nid), CacheLines(src)>>,
         LAMBDA a :
            [next_id |-> NextId(nid),
             eval_cache |-> [k \in DOMAIN cache \cup {a[1]} |->
                                IF k = a[1] THEN a[2] ELSE cache[k]],
             key |-> a[1],
             status |-> IF Compiles(src) THEN "ok" ELSE "SyntaxError"])

\* linecache.getlines as it was: a synthetic key names no file.
OrigGetlines(key) == <<>>

\* patched_getline(key)
PatchedGetline(cache, key) ==
    IF key \in DOMAIN cache THEN cache[key] ELSE OrigGetlines(key)

\* A slip: the function is looked up but not returned.
ForwardFromSrcNoReturn(nid, cache, src) ==
    [next_id |-> NextId(nid), eval_cache |-> cache, key |-> Key(nid),
     status |-> "ok", fn |-> NoMethod]

\* forward_from_src(src): gbls['forward'] raises KeyError when the text
\* defined no forward.
ForwardFromSrc(nid, cache, src) ==
    With(ExecWithSource(nid, cache, src),
         LAMBDA r :
            [next_id |-> r.next_id, eval_cache |-> r.eval_cache, key |-> r.key,
             status |-> IF r.status # "ok" THEN r.status
                        ELSE IF ~DefinesForward(src) THEN "KeyError" ELSE "ok",
             fn |-> [key |-> r.key, src |-> src]])

-----------------------------------------------------------------------------
(* Graphs.  A node has an operation, a target and the statement that       *)
(* Graph.python_code emits for it; a placeholder's target is the name of a *)
(* free variable.                                                          *)

Placeholder(name) == [op |-> "placeholder", target |-> <<name>>, stmt |-> ""]
CallModule(names, stmt) == [op |-> "call_module", target |-> T(names), stmt |-> stmt]
GetParam(names, stmt) == [op |-> "get_param", target |-> T(names), stmt |-> stmt]
CallFunction(stmt) == [op |-> "call_function", target |-> <<"add">>, stmt |-> stmt]

GraphLinear ==       \* one submodule call
    [nodes |-> << Placeholder("x"), CallModule(<<"a">>, "s = self.a(x)") >>,
     result |-> <<"s">>]
GraphDeep ==         \* a leaf below two containers, then its parent
    [nodes |-> << Placeholder("x"), GetParam(<<"a", "b", "w">>, "w = self.a.b.w"),
                  CallModule(<<"a", "b">>, "t = self.a.b(x)"),
                  CallFunction("s = t + w") >>,
     result |-> <<"s">>]
GraphStale ==        \* a.z is not in the template; a comes first
    [nodes |-> << Placeholder("x"), CallModule(<<"a">>, "s = self.a(x)"),
                  GetParam(<<"a", "z">>, "z = self.a.z") >>,
     result |-> <<"s">>]
GraphNone ==         \* n is None in the template
    [nodes |-> << Placeholder("x"), GetParam(<<"n", "x">>, "w = self.n.x") >>,
     result |-> <<"x">>]
GraphAbsent ==       \* z is not in the template
    [nodes |-> << Placeholder("x"), GetParam(<<"z", "w">>, "w = self.z.w") >>,
     result |-> <<"x">>]
GraphBroken ==       \* a statement that does not compile
    [nodes |-> << Placeholder("x"), CallFunction("s = ?") >>,
     result |-> <<"s">>]

Graphs == {GraphDeep, GraphStale, GraphNone, GraphAbsent, GraphBroken}
EditedGraphs == {GraphLinear, GraphBroken}

Qualifying(node) == node.op \in {"get_param", "call_module"}

\* Graph.python_code(root_module='self'): (body, result, free_variables).
RECURSIVE BodyOf(_)
BodyOf(nodes) ==
    IF nodes = <<>> THEN <<>>
    ELSE IF Head(nodes).op = "placeholder" THEN BodyOf(Tail(nodes))
    ELSE <<Head(nodes).stmt, NL>> \o BodyOf(Tail(nodes))

RECURSIVE FreeOf(_)
FreeOf(nodes) ==
    IF nodes = <<>> THEN <<>>
    ELSE IF Head(nodes).op = "placeholder"
         THEN <<Head(nodes).target>> \o FreeOf(Tail(nodes))
    ELSE FreeOf(Tail(nodes))

PythonCode(g) ==
    [body |-> BodyOf(g.nodes), result |-> g.result, free |-> FreeOf(g.nodes)]

-----------------------------------------------------------------------------
(* GraphModule.  A world w is the record of the module globals and the     *)
(* objects: [heap, classes, next_id, eval_cache, binds].                   *)

World == [heap |-> heap, classes |-> classes, next_id |-> next_id,
          eval_cache |-> eval_cache, binds |-> binds]

\* type(self)
TypeOf(h, self) == h[self].cls

\* The method a call of the object runs: the first `forward` on its class
\* and the bases of it.
RECURSIVE Forward(_, _)
Forward(cl, c) ==
    IF c = 0 THEN NoMethod
    ELSE IF cl[c].forward # NoMethod THEN cl[c].forward
    ELSE Forward(cl, cl[c].base)

\* A slip: the instance is made of the declared class itself.
DeclaredClass(cl, cls) == cls

\* __new__: the instance is made of a class GraphModuleImpl(cls) of its own.
InstanceClass(cl, cls) == Len(cl) + 1

\* _generate_forward: self.code is set, then the text is bound and the
\* function is stored on type(self).
GenerateForward(w, self) ==
    With(GenerateCode(PythonCode(w.heap[self].dict["graph"]).body,
                      PythonCode(w.heap[self].dict["graph"]).result,
                      PythonCode(w.heap[self].dict["graph"]).free),
         LAMBDA code :
            With(ForwardFromSrc(w.next_id, w.eval_cache, code),
                 LAMBDA r :
                    [heap |-> SetAttr(w.heap, self, "code", code),
                     classes |-> IF r.status = "ok"
                                 THEN [w.classes EXCEPT
                                          ![TypeOf(w.heap, self)].forward = r.fn]
                                 ELSE w.classes,
                     next_id |-> r.next_id, eval_cache |-> r.eval_cache,
                     binds |-> Append(w.binds, [key |-> r.key, src |-> code]),
                     status |-> r.status, key |-> r.key, self |-> self]))

\* The loop of __init__ over graph.nodes; the first call that raises ends it.
RECURSIVE CopyAll(_, _, _, _)
CopyAll(h, root, self, nodes) ==
    IF nodes = <<>> THEN [heap |-> h, status |-> "ok"]
    ELSE IF ~Qualifying(Head(nodes)) THEN CopyAll(h, root, self, Tail(nodes))
    ELSE With(CopyAttr(h, root, self, Head(nodes).target),
              LAMBDA r :
                 IF r.status # "ok" THEN [heap |-> r.heap, status |-> r.status]
                 ELSE CopyAll(r.heap, root, self, Tail(nodes)))

\* What a call that raised leaves: no object, the registry as it then was.
Raised(w, reg, status) ==
    [heap |-> w.heap, classes |-> w.classes, next_id |-> reg.next_id,
     eval_cache |-> reg.eval_cache, binds |-> reg.binds, status |-> status,
     key |-> <<>>, self |-> None]

\* GraphModule(root, graph): __new__ and __init__.  When __init__ raises,
\* the caller gets no object: what was built is dropped, what was written
\* to the registry stays.
NewGraphModule(w, cls, root, graph) ==
    With(CopyAll(SetAttr(Append(w.heap, NewModule(InstanceClass(w.classes, cls))),
                         Len(w.heap) + 1, "training",
                         w.heap[root].dict["training"]),
                 root, Len(w.heap) + 1, graph.nodes),
         LAMBDA c :
            IF c.status # "ok" THEN Raised(w, w, c.status)
            ELSE With(GenerateForward(
                          [w EXCEPT !.heap = SetAttr(c.heap, Len(w.heap) + 1,
                                                     "graph", graph),
                                    !.classes = Append(w.classes,
                                        [name |-> "GraphModuleImpl", base |-> cls,
                                         forward |-> NoMethod])],
                          Len(w.heap) + 1),
                      LAMBDA g : IF g.status # "ok" THEN Raised(w, g, g.status)
                                 ELSE g))

\* __reduce__: the argument handed to deserialize_graphmodule.
Reduce(h, self) == h[self].dict

-----------------------------------------------------------------------------
(* symbolic_trace, which is not part of this file: it runs the carrier's   *)
(* forward and records what the run does, then returns                     *)
(* GraphModule(carrier, graph).  Here it reads the statements back from    *)
(* the text of the method, and a statement that reads self.<path> fails    *)
(* when the carrier has no such path.                                      *)

KnownNodes ==
    UNION {{g.nodes[i] : i \in 1..Len(g.nodes)} : g \in Graphs \cup EditedGraphs}
KnownStmts == {n.stmt : n \in {m \in KnownNodes : m.op # "placeholder"}}
NodeOf(stmt) == CHOOSE n \in KnownNodes : n.op # "placeholder" /\ n.stmt = stmt

IsBlankLine(line) == line = <<>> \/ line = <<INDENT>>
IsReturnLine(line) == Len(line) >= 2 /\ line[1] = INDENT /\ line[2] = "return "
IsStmtLine(line) == Len(line) = 2 /\ line[1] = INDENT /\ line[2] \in KnownStmts
IsHeader(line) ==
    /\ Len(line) >= 4
    /\ line[1] = "def forward(" /\ line[2] = "self" /\ line[3] = ", "
    /\ line[Len(line)] = "):"
NonEmpty(piece) == piece # <<>>

AnalyzeLines(h, carrier, header, rest) ==
    LET wellFormed ==
            /\ IsHeader(header)
            /\ \A i \in 1..Len(rest) :
                  IsBlankLine(rest[i]) \/ IsReturnLine(rest[i]) \/ IsStmtLine(rest[i])
            /\ Len(SelectSeq(rest, IsReturnLine)) = 1
        free == SelectSeq(SplitOn(SubSeq(header, 4, Len(header) - 1), ", "), NonEmpty)
        stmts == SelectSeq(rest, IsStmtLine)
        ret == SelectSeq(rest, IsReturnLine)[1]
    IN  IF ~wellFormed THEN [status |-> "TraceError", graph |-> GraphLinear]
        ELSE With([i \in 1..Len(free) |-> Placeholder(free[i][1])]
                     \o [i \in 1..Len(stmts) |-> NodeOf(stmts[i][2])],
                  LAMBDA nodes :
                     IF \E i \in 1..Len(nodes) :
                           /\ Qualifying(nodes[i])
                           /\ ~Resolves(h, carrier, nodes[i].target)
                     THEN [status |-> "AttributeError", graph |-> GraphLinear]
                     ELSE [status |-> "ok",
                           graph |-> [nodes |-> nodes,
                                      result |-> SubSeq(ret, 3, Len(ret))]])

Analyze(h, carrier, src) ==
    With(SplitOn(src, NL),
         LAMBDA lines :
            With(<<lines[1], Tail(lines)>>,
                 LAMBDA a : AnalyzeLines(h, carrier, a[1], a[2])))

\* CodeOnlyModule(body): super().__init__(), then self.__dict__ = body.
Carrier(cls, body) == [cls |-> cls, dict |-> body]

\* deserialize_graphmodule(body): the class CodeOnlyModule gets the bound
\* function as its forward, the carrier CodeOnlyModule(body) is traced, and
\* symbolic_trace returns GraphModule(carrier, graph).
TraceCarrier(w, body, r, reg) ==
    With([reg EXCEPT
             !.heap = Append(w.heap, Carrier(Len(w.classes) + 1, body)),
             !.classes = Append(w.classes,
                                [name |-> "CodeOnlyModule", base |-> ModuleCls,
                                 forward |-> r.fn])],
         LAMBDA w1 :
            With(Analyze(w1.heap, Len(w1.heap),
                         Forward(w1.classes, TypeOf(w1.heap, Len(w1.heap))).src),
                 LAMBDA a :
                    IF a.status # "ok" THEN Raised(w, reg, a.status)
                    ELSE With(NewGraphModule(w1, GraphModuleCls, Len(w1.heap),
                                             a.graph),
                              LAMBDA u : IF u.status # "ok"
                                         THEN Raised(w, u, u.status)
                                         ELSE u)))

Deserialize(w, body) ==
    IF "code" \notin DOMAIN body THEN Raised(w, w, "KeyError")
    ELSE With(ForwardFromSrc(w.next_id, w.eval_cache, body["code"]),
              LAMBDA r :
                 With([w EXCEPT !.next_id = r.next_id,
                                !.eval_cache = r.eval_cache,
                                !.binds = Append(w.binds,
                                                 [key |-> r.key,
                                                  src |-> body["code"]])],
                      LAMBDA reg :
                         IF r.status # "ok" THEN Raised(w, reg, r.status)
                         ELSE TraceCarrier(w, body, r, reg)))

-----------------------------------------------------------------------------
(* The program: callers construct units from the template, regenerate      *)
(* them, replace their graph, reduce and restore them.                     *)
(* units[i] = [obj, bound]: the object, and as history the key of the last *)
(* text the unit itself bound with success.                                *)

\* The state bundles handed to deserialize_graphmodule: what __reduce__
\* gave, as it was or damaged on the way.
Bundle(body, mode) ==
    CASE mode = "intact" -> body
      [] mode = "nocode" -> [k \in DOMAIN body \ {"code"} |-> body[k]]
      [] mode = "noforward" -> [body EXCEPT !["code"] = <<"x = 1", NL>>]
      [] mode = "garbled" -> [body EXCEPT !["code"] = <<"?", NL>>]

BundleModes == {"intact", "nocode", "noforward", "garbled"}

Init ==
    /\ heap = TemplateHeap(FALSE)
    /\ classes = BaseClasses
    /\ next_id = 0
    /\ eval_cache = EmptyDict
    /\ units = <<>>
    /\ binds = <<>>
    /\ last = NoLast
    /\ copies = <<>>
    /\ syn = NoSyn
    /\ threads = <<>>

Install(r) ==
    /\ heap' = r.heap
    /\ classes' = r.classes
    /\ next_id' = r.next_id
    /\ eval_cache' = r.eval_cache
    /\ binds' = r.binds

\* GraphModule(root, graph)
Construct(graph) ==
    /\ Len(units) < MaxUnits
    /\ Len(binds) < MaxBinds
    /\ \E r \in {NewGraphModule(World, GraphModuleCls, RootObj, graph)} :
           /\ Install(r)
           /\ units' = IF r.status = "ok"
                       THEN Append(units, [obj |-> r.self, bound |-> r.key])
                       ELSE units
           /\ last' = [op |-> "construct", graph |-> graph, status |-> r.status,
                       unit |-> IF r.status = "ok" THEN Len(units) + 1 ELSE 0]
    /\ UNCHANGED <<copies, syn, threads>>

\* unit._generate_forward(), after the caller has or has not replaced the
\* unit's graph (unit.graph = graph).
Generate(i, graph) ==
    /\ Len(binds) < MaxBinds
    /\ \E self \in {units[i].obj} :
        \E r \in {GenerateForward(
                      [World EXCEPT !.heap = SetAttr(heap, self, "graph", graph)],
                      self)} :
           /\ Install(r)
           /\ units' = [units EXCEPT
                           ![i].bound = IF r.status = "ok" THEN r.key ELSE @]
           /\ last' = [op |-> "generate", unit |-> i, status |-> r.status,
                       same |-> heap[self].dict["graph"] = graph,
                       prevCode |-> heap[self].dict["code"],
                       prevKey |-> Forward(classes, TypeOf(heap, self)).key]
    /\ UNCHANGED <<copies, syn, threads>>

\* unit.__reduce__()
DoReduce(i) ==
    /\ last' = [op |-> "reduce", unit |-> i, bundle |-> Reduce(heap, units[i].obj)]
    /\ last' # last
    /\ UNCHANGED <<heap, classes, next_id, eval_cache, units, binds, copies, syn, threads>>

\* deserialize_graphmodule(body) on what unit i reduces to.
Restore(i, mode) ==
    /\ Len(units) < MaxUnits
    /\ Len(binds) + 2 <= MaxBinds
    /\ \E r \in {Deserialize(World, Bundle(Reduce(heap, units[i].obj), mode))} :
           /\ Install(r)
           /\ units' = IF r.status = "ok"
                       THEN Append(units, [obj |-> r.self, bound |-> r.key])
                       ELSE units
           /\ last' = [op |-> "restore", from |-> i, mode |-> mode,
                       status |-> r.status,
                       unit |-> IF r.status = "ok" THEN Len(units) + 1 ELSE 0]
    /\ UNCHANGED <<copies, syn, threads>>

Next ==
    \/ \E graph \in Graphs : Construct(graph)
    \/ \E i \in 1..Len(units) :
          \E graph \in EditedGraphs \cup {heap[units[i].obj].dict["graph"]} :
              Generate(i, graph)
    \/ \E i \in 1..Len(units) : DoReduce(i)
    \/ \E i \in 1..Len(units), mode \in BundleModes : Restore(i, mode)

Spec == Init /\ [][Next]_vars

\* The synthesizer alone.
InitSynth ==
    /\ syn \in [body : Bodies, result : Results, free : FreeLists,
                code : {<<>>}, done : {FALSE}]
    /\ heap = TemplateHeap(TRUE)
    /\ classes = BaseClasses
    /\ next_id = 0
    /\ eval_cache = EmptyDict
    /\ units = <<>>
    /\ binds = <<>>
    /\ last = NoLast
    /\ copies = <<>>
    /\ threads = <<>>

SpecSynth == InitSynth /\ [][Synthesize]_vars

-----------------------------------------------------------------------------
(* The binder alone: callers bind texts of their own.                      *)

BindTexts ==
    { <<>>, <<"x = 1">>, <<"x = 1", NL>>, <<"x = 1", CR>>,
      <<"x = 1", CR, NL, "y = 2", NL>>, <<"x = 1", NL, NL, "y = 2", NL>>,
      <<"?", NL>>,
      GenerateCode(BodyOf(GraphLinear.nodes), GraphLinear.result,
                   FreeOf(GraphLinear.nodes)) }

\* exec_with_source(src, {})
Exec(src) ==
    /\ Len(binds) < MaxBinds
    /\ \E r \in {ExecWithSource(next_id, eval_cache, src)} :
           /\ next_id' = r.next_id
           /\ eval_cache' = r.eval_cache
           /\ binds' = Append(binds, [key |-> r.key, src |-> src])
           /\ last' = [op |-> "exec", status |-> r.status, key |-> r.key]
    /\ UNCHANGED <<heap, classes, units, copies, syn, threads>>

\* forward_from_src(src)
FromSrc(src) ==
    /\ Len(binds) < MaxBinds
    /\ \E r \in {ForwardFromSrc(next_id, eval_cache, src)} :
           /\ next_id' = r.next_id
           /\ eval_cache' = r.eval_cache
           /\ binds' = Append(binds, [key |-> r.key, src |-> src])
           /\ last' = [op |-> "forward_from_src", status |-> r.status, key |-> r.key]
    /\ UNCHANGED <<heap, classes, units, copies, syn, threads>>

NextBind ==
    \/ \E src \in BindTexts : Exec(src)
    \/ \E src \in BindTexts : FromSrc(src)

SpecBind == Init /\ [][NextBind]_vars

-----------------------------------------------------------------------------
(* exec_with_source called from several threads.  The interpreter may hand *)
(* the processor to another thread between any two statements, and inside  *)
(* `_next_id += 1` between the read of the global and the write of it.     *)
(* threads[t] = [pc, src, key, tmp]: the statement thread t runs next, its *)
(* argument, its local key, and the value it read for the increment.       *)

ThreadTexts == { <<"x = 1", NL>>, <<"y = 2", NL>>, <<"?", NL>> }

InitThreads ==
    /\ threads \in [1..MaxThreads ->
                       [pc : {"line14"}, src : ThreadTexts, key : {<<>>}, tmp : {0}]]
    /\ heap = TemplateHeap(FALSE)
    /\ classes = BaseClasses
    /\ next_id = 0
    /\ eval_cache = EmptyDict
    /\ units = <<>>
    /\ binds = <<>>
    /\ last = NoLast
    /\ copies = <<>>
    /\ syn = NoSyn

\* key = f'<eval_with_key_{_next_id}>'
TakeKey(t) ==
    /\ threads[t].pc = "line14"
    /\ threads' = [threads EXCEPT ![t].key = Key(next_id), ![t].pc = "line15"]
    /\ UNCHANGED <<next_id, eval_cache, heap, classes, units, binds, last, copies, syn>>

\* _next_id += 1: the read of the global
LoadId(t) ==
    /\ threads[t].pc = "line15"
    /\ threads' = [threads EXCEPT ![t].tmp = next_id, ![t].pc = "line15_store"]
    /\ UNCHANGED <<next_id, eval_cache, heap, classes, units, binds, last, copies, syn>>

\* _next_id += 1: the write of the global
StoreId(t) ==
    /\ threads[t].pc = "line15_store"
    /\ next_id' = NextId(threads[t].tmp)
    /\ threads' = [threads EXCEPT ![t].pc = "line16"]
    /\ UNCHANGED <<eval_cache, heap, classes, units, binds, last, copies, syn>>

\* _eval_cache[key] = [line + '\n' for line in src.splitlines()]
StoreLines(t) ==
    /\ threads[t].pc = "line16"
    /\ \E k \in {threads[t].key} :
          eval_cache' = [x \in DOMAIN eval_cache \cup {k} |->
                            IF x = k THEN CacheLines(threads[t].src)
                            ELSE eval_cache[x]]
    /\ binds' = Append(binds, [key |-> threads[t].key, src |-> threads[t].src])
    /\ threads' = [threads EXCEPT ![t].pc = "line17"]
    /\ UNCHANGED <<next_id, heap, classes, units, last, copies, syn>>

\* exec(compile(src, key, 'exec'), globals)
CompileExec(t) ==
    /\ threads[t].pc = "line17"
    /\ threads' = [threads EXCEPT ![t].pc = "done"]
    /\ last' = [op |-> "exec", key |-> threads[t].key,
                status |-> IF Compiles(threads[t].src) THEN "ok" ELSE "SyntaxError"]
    /\ UNCHANGED <<next_id, eval_cache, heap, classes, units, binds, copies, syn>>

NextThreads ==
    \E t \in 1..MaxThreads :
        \/ TakeKey(t)
        \/ LoadId(t)
        \/ StoreId(t)
        \/ StoreLines(t)
        \/ CompileExec(t)

SpecThreads == InitThreads /\ [][NextThreads]_vars

\* C11. Concurrent bind safety: with exec_with_source running in several
\* threads at once, no two calls take the same key, and the lines a call
\* stored under its key stay the lines of that call's text.
C11_ConcurrentBindSafe ==
    /\ \A t, u \in 1..MaxThreads :
          (t # u /\ threads[t].pc # "line14" /\ threads[u].pc # "line14")
          => threads[t].key # threads[u].key
    /\ \A t \in 1..MaxThreads :
          threads[t].pc \in {"line17", "done"}
          => /\ threads[t].key \in DOMAIN eval_cache
             /\ eval_cache[threads[t].key] = CacheLines(threads[t].src)

-----------------------------------------------------------------------------
(* Claims about the program, under Spec.                                   *)

\* The method a call of unit i runs, and the text the unit keeps.
MethodOf(cl, h, u) == Forward(cl, TypeOf(h, u.obj))
CodeOf(h, u) == h[u.obj].dict["code"]

\* C1. Per-instance isolation: every unit, constructed or restored, runs the
\* method that the unit itself bound last, no two units run the same bound
\* method or share a class; and a step that regenerates one unit, or makes
\* a new unit, leaves the method and the kept text of every other unit as
\* they were.
C1_PerInstanceIsolation ==
    /\ [](/\ \A i \in 1..Len(units) :
                MethodOf(classes, heap, units[i]).key = units[i].bound
          /\ \A i, j \in 1..Len(units) :
                i # j => /\ TypeOf(heap, units[i].obj) # TypeOf(heap, units[j].obj)
                         /\ MethodOf(classes, heap, units[i]).key
                               # MethodOf(classes, heap, units[j]).key)
    /\ [][\A i \in 1..Len(units) :
             ~(last'.op = "generate" /\ last'.unit = i) =>
                 /\ units'[i].obj = units[i].obj
                 /\ MethodOf(classes', heap', units'[i])
                       = MethodOf(classes, heap, units[i])
                 /\ CodeOf(heap', units'[i]) = CodeOf(heap, units[i])]_vars

\* Two units of the same declared class are alive, the second of them
\* restored from the first, and the first has just been regenerated with a
\* new graph.
C1_Witness ==
    /\ Len(units) = 2
    /\ \E o \in 1..Len(heap) : classes[heap[o].cls].name = "CodeOnlyModule"
    /\ last.op = "generate" /\ last.unit = 1 /\ last.status = "ok" /\ ~last.same
    /\ heap[units[2].obj].dict["graph"] # heap[units[1].obj].dict["graph"]

\* Two containers hold the same state: the same keys, equal plain values,
\* and at every slot the same object or containers that hold the same state.
RECURSIVE SameState(_, _, _, _, _)
SameState(cl, h, a, b, depth) ==
    \/ a = b
    \/ /\ depth > 0
       /\ a # None /\ b # None
       /\ \/ h[a].cls = h[b].cls
          \/ /\ cl[h[a].cls].base # 0
             /\ cl[h[a].cls].base = cl[h[b].cls].base
       /\ DOMAIN h[a].dict = DOMAIN h[b].dict
       /\ \A k \in DOMAIN h[a].dict :
             IF k \in {"training", "graph", "code"}
             THEN h[a].dict[k] = h[b].dict[k]
             ELSE SameState(cl, h, h[a].dict[k], h[b].dict[k], depth - 1)

\* C2. Round-trip fidelity: deserialize_graphmodule applied to what a unit
\* reduces to returns a unit, the container state of that unit equals the
\* state of the unit reduced, and so does its generated text.
C2_RoundTrip ==
    (last.op = "restore" /\ last.mode = "intact") =>
        /\ last.status = "ok"
        /\ CodeOf(heap, units[last.unit]) = CodeOf(heap, units[last.from])
        /\ SameState(classes, heap, units[last.from].obj, units[last.unit].obj,
                     Len(heap))

\* C3. What __reduce__ hands over holds the key code, with the text the
\* unit's graph now generates, and does not hold the unit's graph.
C3_BundleCodeNoGraph ==
    last.op = "reduce" =>
        /\ "code" \in DOMAIN last.bundle
        /\ last.bundle["code"] = CodeOf(heap, units[last.unit])
        /\ "graph" \notin DOMAIN last.bundle

\* C5. Construction failure: when some get_param or call_module node of the
\* graph has a target that does not resolve in the template, GraphModule(
\* root, graph) raises AttributeError and the caller gets no unit.
C5_ConstructionFailure ==
    (/\ last.op = "construct"
     /\ \E k \in 1..Len(last.graph.nodes) :
           /\ Qualifying(last.graph.nodes[k])
           /\ ~Resolves(heap, RootObj, last.graph.nodes[k].target))
    => (last.status = "AttributeError" /\ last.unit = 0)

\* C9. Regeneration idempotence: _generate_forward on a unit whose graph
\* was not replaced leaves the unit's text what it was, and when the bind
\* succeeds the method runs under a new key; and the text of every unit is
\* the one its graph's body, result and free variables give.
C9_RegenerationIdempotent ==
    /\ (last.op = "generate" /\ last.same) =>
          /\ CodeOf(heap, units[last.unit]) = last.prevCode
          /\ last.status = "ok" =>
                /\ MethodOf(classes, heap, units[last.unit]).src = last.prevCode
                /\ MethodOf(classes, heap, units[last.unit]).key # last.prevKey
    /\ \A i \in 1..Len(units) :
          CodeOf(heap, units[i])
             = GenerateCode(PythonCode(heap[units[i].obj].dict["graph"]).body,
                            PythonCode(heap[units[i].obj].dict["graph"]).result,
                            PythonCode(heap[units[i].obj].dict["graph"]).free)

\* A unit was regenerated with the graph it had, and the bind succeeded.
C9_Witness ==
    /\ last.op = "generate" /\ last.same /\ last.status = "ok"
    /\ last.prevKey # <<>>

-----------------------------------------------------------------------------
(* Claims about the synthesizer, under SpecSynth.                          *)

\* The parameter list of a header line: the pieces between the commas, a
\* trailing comma counting for nothing.
Params(header) ==
    LET pieces == SplitOn(SubSeq(header, 2, Len(header) - 1), ", ")
    IN  IF pieces[Len(pieces)] = <<>> THEN SubSeq(pieces, 1, Len(pieces) - 1)
        ELSE pieces

\* C8. Synthesized source shape: the text is one definition of forward; its
\* parameters are self and then the free variables in their order; then
\* comes every line of the body, in order, behind one indent; and its last
\* statement, behind the same indent, returns the result.
C8_SourceShape ==
    syn.done =>
        LET lines == SplitOn(syn.code, NL)
            bodyLines == SplitOn(syn.body, NL)
            n == Len(bodyLines)
        IN  /\ Len(lines) = n + 4
            /\ lines[1][1] = "def forward(" /\ lines[1][Len(lines[1])] = "):"
            /\ Cardinality({i \in DOMAIN syn.code : syn.code[i] = "def forward("}) = 1
            /\ Params(lines[1]) = <<<<"self">>>> \o syn.free
            /\ \A k \in 1..n : lines[k + 1] = <<INDENT>> \o bodyLines[k]
            /\ lines[n + 2] = <<>>
            /\ lines[n + 3] = <<INDENT, "return ">> \o syn.result
            /\ lines[n + 4] = <<>>

\* A body of two statements and two free variables was synthesized.
C8_Witness ==
    /\ syn.done
    /\ syn.body = <<"s = self.a(x)", NL, "t = s + x">>
    /\ Len(syn.free) = 2

-----------------------------------------------------------------------------
(* Claims about the source registry, under SpecBind.                       *)

IsBreak(sym) == sym \in {NL, CR}
NoBreak(sym) == ~IsBreak(sym)
NewlineTerminated(src) ==
    /\ ~Contains(src, CR)
    /\ src = <<>> \/ src[Len(src)] = NL

DistinctKeys ==
    \A i, j \in 1..Len(binds) : i # j => binds[i].key # binds[j].key

-----------------------------------------------------------------------------
(* Claims about the registry in the whole program, under Spec.             *)

\* C12. Registry entries are written once: every bind, one that fails
\* included, advances the counter by one and takes a key no other bind took;
\* the lines stored under a key are never changed or removed afterwards, so
\* the lines of a method that was replaced can still be retrieved.
C12_RegistryWriteOnce ==
    /\ [](/\ DistinctKeys
          /\ \A i \in 1..Len(binds) :
                /\ binds[i].key = Key(i - 1)
                /\ PatchedGetline(eval_cache, binds[i].key)
                      = CacheLines(binds[i].src))
    /\ [][/\ SubSeq(binds', 1, Len(binds)) = binds
          /\ next_id' = next_id + (Len(binds') - Len(binds))
          /\ \A k \in DOMAIN eval_cache :
                k \in DOMAIN eval_cache' /\ eval_cache'[k] = eval_cache[k]]_vars

\* A unit was bound, a regeneration of it failed at compile, and a second
\* regeneration replaced its method: the replaced method's key still resolves.
C12_Witness ==
    /\ last.op = "generate" /\ last.status = "ok"
    /\ \E i \in 1..Len(binds) : ~Compiles(binds[i].src)
    /\ last.prevKey \in DOMAIN eval_cache
    /\ MethodOf(classes, heap, units[last.unit]).key # last.prevKey

-----------------------------------------------------------------------------
(* Claims about the life of a unit, under Spec.                            *)

\* The unit has a method of its own that can run.
Bound(cl, h, u) ==
    /\ MethodOf(cl, h, u) # NoMethod
    /\ Compiles(MethodOf(cl, h, u).src)
    /\ DefinesForward(MethodOf(cl, h, u).src)

\* C13. Unit lifecycle: every unit a caller holds has an installed method,
\* from its construction on and after every later _generate_forward, failed
\* or not; no step takes a unit or its method away; and a _generate_forward
\* that succeeds installs a new method, compiled from the text the unit then
\* keeps.
C13_AlwaysBound ==
    /\ [](\A i \in 1..Len(units) : Bound(classes, heap, units[i]))
    /\ [][/\ Len(units') >= Len(units)
          /\ \A i \in 1..Len(units) :
                /\ units'[i].obj = units[i].obj
                /\ Bound(classes', heap', units'[i])
                /\ (last'.op = "generate" /\ last'.unit = i /\ last'.status = "ok")
                   => /\ MethodOf(classes', heap', units'[i]).key
                            # MethodOf(classes, heap, units[i]).key
                      /\ MethodOf(classes', heap', units'[i]).src
                            = CodeOf(heap', units'[i])]_vars

\* A unit's regeneration has just failed at compile, and the unit still has
\* the method it had.
C13_Witness ==
    /\ last.op = "generate" /\ last.status = "SyntaxError"
    /\ Bound(classes, heap, units[last.unit])
    /\ MethodOf(classes, heap, units[last.unit]).key = last.prevKey

-----------------------------------------------------------------------------
(* Claims about runs of _copy_attr, under SpecCopy.                        *)

\* The objects of the template, and a target that holds nothing yet.
TemplateObjs == 1..Len(TemplateHeap(TRUE))
FreshTarget == Append(TemplateHeap(TRUE), NewModule(ModuleCls))

\* The calls _copy_attr(root, target, p) for the paths of a list, in order,
\* up to the first that raises.
RECURSIVE RunCopies(_, _)
RunCopies(h, targets) ==
    IF targets = <<>> THEN [heap |-> h, status |-> "ok"]
    ELSE With(CopyAttr(h, RootObj, TargetObj, Head(targets)),
              LAMBDA r :
                 IF r.status # "ok" THEN [heap |-> r.heap, status |-> r.status]
                 ELSE RunCopies(r.heap, Tail(targets)))

\* What a container holds, the identity of the containers _copy_attr made
\* left out: at every slot, the template object (or None) that is there,
\* or what the container there holds.
RECURSIVE TreeView(_, _)
TreeView(h, o) ==
    IF o = None \/ o \in TemplateObjs THEN <<"template", o>>
    ELSE <<"container",
           [k \in DOMAIN h[o].dict \ {"training"} |-> TreeView(h, h[o].dict[k])]>>

Perms(n) == {f \in [1..n -> 1..n] : \A i, j \in 1..n : i # j => f[i] # f[j]}

AllResolve ==
    \A i \in 1..Len(copies) :
        /\ copies[i].status = "ok"
        /\ Resolves(TemplateHeap(TRUE), RootObj, copies[i].target)

\* C14. Transplant order independence: when the paths copied so far all
\* resolve in the template, copying them into an empty target in any other
\* order succeeds too and gives a target that holds the same: the same
\* template object at the same slot, a made container where there is a made
\* container, with the same in it.
C14_OrderIndependent ==
    AllResolve =>
        \A f \in Perms(Len(copies)) :
            \E r \in {RunCopies(FreshTarget,
                                [i \in 1..Len(copies) |-> copies[f[i]].target])} :
                /\ r.status = "ok"
                /\ TreeView(r.heap, TargetObj) = TreeView(heap, TargetObj)

\* Three paths that resolve were copied, the deepest first, so that the
\* target holds made containers and template objects.
C14_Witness ==
    /\ Len(copies) = 3
    /\ AllResolve
    /\ copies[1].target = T(<<"a", "b", "w">>)
    /\ copies[2].target = T(<<"a", "w">>)
    /\ copies[3].target = T(<<"a", "b">>)
    /\ Len(heap) > TargetObj

\* The objects one _copy_attr call calls setattr on: the walk of CopyWalk,
\* keeping where it writes instead of what.
RECURSIVE WriteSites(_, _, _, _, _)
WriteSites(h, from_module, to_module, prefix, field) ==
    IF prefix = <<>>
    THEN IF HasAttr(h, from_module, field) THEN {to_module} ELSE {}
    ELSE IF ~HasAttr(h, from_module, Head(prefix)) THEN {}
    ELSE IF IsSame(h[from_module].dict[Head(prefix)],
                   TargetAttr(h, to_module, Head(prefix))) THEN {}
    ELSE IF TargetAttr(h, to_module, Head(prefix)) = None
         THEN {to_module}
                 \cup WriteSites(Append(h, NewModule(ModuleCls)),
                                 h[from_module].dict[Head(prefix)], Len(h) + 1,
                                 Tail(prefix), field)
    ELSE WriteSites(h, h[from_module].dict[Head(prefix)],
                    TargetAttr(h, to_module, Head(prefix)), Tail(prefix), field)

\* C15. The template is read-only: after any run of _copy_attr calls into a
\* target that started empty, the template and every object reachable from
\* it are what they were; the last call called setattr on no template
\* object, and every object it changed is the target or a container that
\* _copy_attr made.
C15_TemplateReadOnly ==
    /\ SubSeq(heap, 1, Len(TemplateHeap(TRUE))) = TemplateHeap(TRUE)
    /\ last.op = "copy" =>
          /\ \E names \in {[i \in 1..Len(SplitOn(last.target, DOT)) |->
                               NameOf(SplitOn(last.target, DOT)[i])]} :
                WriteSites(last.before, RootObj, TargetObj,
                           SubSeq(names, 1, Len(names) - 1), names[Len(names)])
                   \cap TemplateObjs = {}
          /\ \A o \in 1..Len(last.before) :
                heap[o] # last.before[o] => o >= TargetObj

\* The target holds the template's container a; a call for a path below it
\* has just returned at the identity test.
C15_Witness ==
    /\ Len(copies) = 3
    /\ copies[1].target = T(<<"a", "w">>)
    /\ copies[2].target = T(<<"a">>)
    /\ copies[3].target = T(<<"a", "b", "w">>)
    /\ last.shortcut /\ last.held

-----------------------------------------------------------------------------
(* Claims about deserialize_graphmodule, under Spec.                       *)

\* Some statement of the unit's text reads a path the unit does not hold.
ReadsAbsent(h, u) ==
    \E k \in 1..Len(h[u.obj].dict["graph"].nodes) :
        /\ Qualifying(h[u.obj].dict["graph"].nodes[k])
        /\ ~Resolves(h, u.obj, h[u.obj].dict["graph"].nodes[k].target)

\* C16. Restore failure is fatal: deserialize_graphmodule raises KeyError
\* for a bundle without code, SyntaxError for a code that does not compile,
\* KeyError for a code that defines no forward, and the analyzer's error
\* when the carrier's method cannot be traced; whenever it raises, the
\* caller gets no unit and holds the units and objects it held before.
C16_RestoreFailureFatal ==
    /\ [](last.op = "restore" =>
            /\ last.mode = "nocode" => last.status = "KeyError"
            /\ last.mode = "garbled" => last.status = "SyntaxError"
            /\ last.mode = "noforward" => last.status = "KeyError"
            /\ (last.mode = "intact" /\ ~Compiles(CodeOf(heap, units[last.from])))
               => last.status = "SyntaxError"
            /\ (/\ last.mode = "intact"
                /\ Compiles(CodeOf(heap, units[last.from]))
                /\ ReadsAbsent(heap, units[last.from]))
               => last.status = "AttributeError"
            /\ last.status # "ok" => last.unit = 0
            /\ last.status = "ok" =>
                  /\ last.unit = Len(units)
                  /\ Bound(classes, heap, units[last.unit]))
    /\ [][(last'.op = "restore" /\ last'.status # "ok")
          => (units' = units /\ heap' = heap /\ classes' = classes)]_vars

\* A bundle whose code defines no forward was handed over: the call raised
\* after the text was stored in the registry, and there is still one unit.
C16_Witness ==
    /\ last.op = "restore" /\ last.mode = "noforward"
    /\ last.status = "KeyError"
    /\ Len(units) = 1
    /\ Len(binds) = 2 /\ ~DefinesForward(binds[2].src)

-----------------------------------------------------------------------------
(* Claims about a unit's text and method, under Spec.                      *)

\* C17. Source/method consistency: in every state, the text a unit keeps
\* as code is the text its installed method was compiled from, also after
\* a _generate_forward that raised part-way.
C17_CodeIsMethodSource ==
    \A i \in 1..Len(units) :
        CodeOf(heap, units[i]) = MethodOf(classes, heap, units[i]).src

-----------------------------------------------------------------------------
(* Claims about the shape of the target, under SpecCopy.                   *)

\* What container t holds, against what the template holds at the same
\* place (f): at every slot the very object the template has there, or a
\* container that _copy_attr made, holding in turn what it should.
RECURSIVE ShapeOk(_, _, _)
ShapeOk(h, t, f) ==
    \A k \in DOMAIN h[t].dict \ {"training"} :
        /\ HasAttr(h, f, k)
        /\ \/ h[t].dict[k] = h[f].dict[k]
           \/ /\ h[t].dict[k] > TargetObj
              /\ h[h[t].dict[k]].cls = ModuleCls
              /\ h[h[t].dict[k]].dict["training"] = TRUE
              /\ ShapeOk(h, h[t].dict[k], h[f].dict[k])

\* C18. Target tree shape: after any run of _copy_attr calls from the
\* unchanged template into a target that started empty, what the target
\* holds at a path is the object the template holds at that path, or a
\* container that _copy_attr made; no template object is held at a path
\* where the template does not hold it.
C18_TargetShape ==
    /\ SubSeq(heap, 1, TargetObj - 1) = TemplateHeap(TRUE)
    /\ ShapeOk(heap, TargetObj, RootObj)

\* a.b.w was copied and then a.w.x raised: the target holds made containers
\* at a, a.b and a.w, and the template's leaf at a.b.w.
C18_Witness ==
    /\ Len(copies) = 2
    /\ copies[1] = [target |-> T(<<"a", "b", "w">>), status |-> "ok"]
    /\ copies[2] = [target |-> T(<<"a", "w", "x">>), status |-> "AttributeError"]
    /\ Resolves(heap, TargetObj, T(<<"a", "w">>))
    /\ Resolve(heap, TargetObj, T(<<"a", "w">>))[2] > TargetObj
    /\ Resolve(heap, TargetObj, T(<<"a", "b", "w">>))
          = Resolve(heap, RootObj, T(<<"a", "b", "w">>))

====
